---- MODULE Spec2Model ----
(***************************************************************************)
(* Model of internal/business/service/service.go: the userService over a   *)
(* "users" table, wrapped by the instrumenting decorator as New does.      *)
(*                                                                         *)
(* Granularity: one step per SQL statement.  Create (COUNT then INSERT)    *)
(* and Update (SELECT then UPDATE) issue two statements and may be         *)
(* interleaved with other calls between them; every other method issues    *)
(* at most one statement and is a single step.  Every statement may fail   *)
(* with a store error (dbOK = FALSE), in which case it has no effect.      *)
(* The table carries no constraint of its own: the source shows only the   *)
(* statements, not the schema.                                              *)
(***************************************************************************)
EXTENDS Integers, Sequences, FiniteSets, TLC

VARIABLES
    users,          \* rows of the "users" table
    nextID,         \* number of ids uuid.New() has produced so far
    inflight,       \* the calls suspended between their two statements
    ret,            \* the last call that returned: arguments, result, statements issued
    started,        \* calls begun
    requestCount,   \* the decorator's invocation counter
    requestLatency  \* number of samples in the decorator's latency histogram

vars == <<users, nextID, inflight, ret, started, requestCount, requestLatency>>

-----------------------------------------------------------------------------
(* Bounds *)

\* Calls begun in one behaviour.
MaxCalls == 3

-----------------------------------------------------------------------------
(* Errors, service.go:20-37 *)

ErrNotFound == "not found"
ErrInvalidID == "ID is not in its proper form"
ErrDuplicatedEmail == "email already in use"
ErrAuthenticationFailure == "authentication failed"
ErrForbidden == "attempted action is not allowed"

\* errors.Wrap / errors.Wrapf around a store or bcrypt error
ErrWrapped == "wrapped"
Nil == "nil"

-----------------------------------------------------------------------------
(* Values *)

\* Identifiers uuid.New().String() hands out, in order of generation.
UUIDs == <<"uuid-1", "uuid-2", "uuid-3", "uuid-4", "uuid-5", "uuid-6">>

UUIDSet == {UUIDs[i] : i \in 1..Len(UUIDs)}

\* Strings callers pass as ids: a malformed one, and the ids of the first two
\* users created.
InputIDs == {"not-a-uuid", UUIDs[1], UUIDs[2]}

\* Exact, case-sensitive strings.
Emails == {"ada@x.io", "ADA@x.io"}

Passwords == {"pw1", "pw2"}

RoleAdmin == "ADMIN"
RoleUser == "USER"

\* Profile fields of the requests that create a user, and of those that update one.
NewProfile == [Name |-> "Ada", LastName |-> "Byron", Country |-> "UK"]
UpdatedProfile == [Name |-> "Alan", LastName |-> "Turing", Country |-> "US"]

\* time.Time: an instant in seconds and a location.  Callers pass the time of
\* the call: the n-th call begun passes the instant 100 * n, in local time.
Now == [sec |-> 100 * (started + 1), loc |-> "Local"]

ZeroTime == [sec |-> 0, loc |-> "UTC"]

\* time.Time.UTC(): same instant, location UTC.
UTC(t) == [sec |-> t.sec, loc |-> "UTC"]

\* time.Hour in seconds, as now.Add(time.Hour).Unix() uses it.
Hour == 3600

\* The random salts bcrypt draws, in order of generation.
Salts == <<"salt-1", "salt-2", "salt-3", "salt-4", "salt-5", "salt-6">>

\* bcrypt.DefaultCost
DefaultCost == 10

\* The digest bcrypt derives from salt, cost and password.
Digest(salt, cost, password) == <<salt, cost, password>>

\* bcrypt.GenerateFromPassword with the salt the call drew.
GenerateFromPassword(password, cost, salt) ==
    [salt |-> salt, cost |-> cost, digest |-> Digest(salt, cost, password)]

\* bcrypt.CompareHashAndPassword: TRUE when it returns nil.
CompareHashAndPassword(hash, password) ==
    hash.digest = Digest(hash.salt, hash.cost, password)

NoHash == [salt |-> "", cost |-> 0, digest |-> <<>>]

\* User{}
ZeroUser ==
    [ ID |-> "", Name |-> "", LastName |-> "", Email |-> "", Country |-> "",
      PasswordHash |-> NoHash, Roles |-> <<>>,
      DateCreated |-> ZeroTime, DateUpdated |-> ZeroTime ]

\* auth.Claims{}
ZeroClaims ==
    [ Issuer |-> "", Subject |-> "", Audience |-> "",
      ExpiresAt |-> 0, IssuedAt |-> 0, Roles |-> <<>> ]

\* The caller's claims, by the fields the service reads: a user, an admin,
\* and claims whose subject is no id.
CallerClaims ==
    { [Subject |-> UUIDs[1], Roles |-> <<RoleUser>>],
      [Subject |-> UUIDs[2], Roles |-> <<RoleUser, RoleAdmin>>],
      [Subject |-> "not-a-uuid", Roles |-> <<>>] }

\* Password and roles of the requests that create a user: an admin, a plain
\* user with another password, and a request that names no role.
Credentials ==
    { [Password |-> "pw1", Roles |-> <<RoleUser, RoleAdmin>>],
      [Password |-> "pw2", Roles |-> <<RoleUser>>],
      [Password |-> "pw1", Roles |-> <<>>] }

NewUserRequests ==
    { [ Name |-> NewProfile.Name, LastName |-> NewProfile.LastName,
        Country |-> NewProfile.Country,
        Email |-> e, Password |-> c.Password, Roles |-> c.Roles ] :
      e \in Emails, c \in Credentials }

UpdateUserRequests ==
    { [ Name |-> UpdatedProfile.Name, LastName |-> UpdatedProfile.LastName,
        Country |-> UpdatedProfile.Country, Email |-> e ] : e \in Emails }

NoCall == [op |-> "none", args |-> <<>>, next |-> [err |-> Nil, out |-> <<>>],
           err |-> Nil, out |-> <<>>, dbCalls |-> 0]

-----------------------------------------------------------------------------
(* Helpers *)

\* uuid.Parse(userID) returns no error.
ParseOK(userID) == userID \in UUIDSet

\* claims.Authorized(role): some role of the claims is the wanted one.
Authorized(claims, role) ==
    \E i \in 1..Len(claims.Roles) : claims.Roles[i] = role

\* Mutant of the guard: the two conditions joined by "or".
DeniedEither(claims, userID) ==
    ~Authorized(claims, RoleAdmin) \/ claims.Subject # userID

\* The guard of GetByID and Delete.
Denied(claims, userID) ==
    ~Authorized(claims, RoleAdmin) /\ claims.Subject # userID

\* What a single-row read (QueryRow / Get) can scan from the matching rows:
\* nothing (sql.ErrNoRows) or any one of them, the first the store returns.
QueryRow(rows) == IF rows = {} THEN {<<>>} ELSE {<<u>> : u \in rows}

SelectByID(userID) == {u \in users : u.ID = userID}

SelectByEmail(email) == {u \in users : u.Email = email}

\* SELECT COUNT(*) FROM users WHERE email=$1
CountByEmail(email) == Cardinality(SelectByEmail(email))

Result(err, out, dbCalls) == [err |-> err, out |-> out, dbCalls |-> dbCalls]

\* Mutant of the decorator: the delegate's error is dropped.
InstrumentSwallow(res) == [res EXCEPT !.err = Nil]

\* The instrumenting decorator hands the delegate's result on.
Instrument(res) == res

\* A call returns through the decorator: one count, one latency sample.
Return(op, args, res) ==
    /\ ret' = [ op |-> op, args |-> args,
                next |-> [err |-> res.err, out |-> res.out],
                err |-> Instrument(res).err, out |-> Instrument(res).out,
                dbCalls |-> res.dbCalls ]
    /\ requestCount' = requestCount + 1
    /\ requestLatency' = requestLatency + 1

Begin ==
    /\ started < MaxCalls
    /\ started' = started + 1

-----------------------------------------------------------------------------
(* GetByID, service.go:200-223 *)

\* Mutant of GetByID: the guard runs before the id is parsed.
GetByIDGuardFirst(claims, userID, dbOK, row) ==
    IF Denied(claims, userID) THEN Result(ErrForbidden, ZeroUser, 0)
    ELSE IF ~ParseOK(userID) THEN Result(ErrInvalidID, ZeroUser, 0)
    ELSE IF ~dbOK THEN Result(ErrWrapped, ZeroUser, 1)
    ELSE IF row = <<>> THEN Result(ErrNotFound, ZeroUser, 1)
    ELSE Result(Nil, row[1], 1)

GetByIDResult(claims, userID, dbOK, row) ==
    IF ~ParseOK(userID) THEN Result(ErrInvalidID, ZeroUser, 0)
    ELSE IF Denied(claims, userID) THEN Result(ErrForbidden, ZeroUser, 0)
    ELSE IF ~dbOK THEN Result(ErrWrapped, ZeroUser, 1)
    ELSE IF row = <<>> THEN Result(ErrNotFound, ZeroUser, 1)
    ELSE Result(Nil, row[1], 1)

GetByID(claims, userID, dbOK) ==
    /\ Begin
    /\ \E row \in QueryRow(SelectByID(userID)) :
          Return("GetByID", [claims |-> claims, userID |-> userID],
                 GetByIDResult(claims, userID, dbOK, row))
    /\ UNCHANGED <<users, nextID, inflight>>

-----------------------------------------------------------------------------
(* Create, service.go:70-112 *)

\* The User value Create assembles.
NewUser(nur, now, id, hash) ==
    [ ID |-> id, Name |-> nur.Name, LastName |-> nur.LastName,
      Email |-> nur.Email, Country |-> nur.Country,
      PasswordHash |-> hash, Roles |-> nur.Roles,
      DateCreated |-> UTC(now), DateUpdated |-> UTC(now) ]

\* Mutant of the count check: one row with the email is let through.
CreateCheckMoreThanOne(nur, dbOK) ==
    IF ~dbOK THEN Result(ErrWrapped, ZeroUser, 1)
    ELSE IF CountByEmail(nur.Email) > 1 THEN Result(ErrDuplicatedEmail, ZeroUser, 1)
    ELSE Result(Nil, ZeroUser, 1)

\* First statement: the email count.  A failed query and a count other than 0
\* end the call; otherwise the call goes on to hash and insert.
CreateCheckResult(nur, dbOK) ==
    IF ~dbOK THEN Result(ErrWrapped, ZeroUser, 1)
    ELSE IF CountByEmail(nur.Email) # 0 THEN Result(ErrDuplicatedEmail, ZeroUser, 1)
    ELSE Result(Nil, ZeroUser, 1)

Create(nur, now, dbOK) ==
    /\ Begin
    /\ LET r == CreateCheckResult(nur, dbOK) IN
         IF r.err # Nil
         THEN /\ Return("Create", [nur |-> nur, now |-> now], r)
              /\ UNCHANGED inflight
         ELSE /\ inflight' = inflight \cup {[pc |-> "insert", nur |-> nur, now |-> now]}
              /\ UNCHANGED <<ret, requestCount, requestLatency>>
    /\ UNCHANGED <<users, nextID>>

\* Mutant of the INSERT: a row whose email is on file is not added.
InsertUserUnique(u) ==
    IF SelectByEmail(u.Email) # {} THEN users ELSE users \cup {u}

\* The rows of the table after INSERT INTO users of u.
InsertUser(u) == users \cup {u}

\* Second part: hash, fresh id, INSERT.
CreateInsert(c, hashOK, dbOK) ==
    /\ c \in inflight
    /\ c.pc = "insert"
    /\ LET nur == c.nur
           now == c.now
           args == [nur |-> nur, now |-> now]
           hash == GenerateFromPassword(nur.Password, DefaultCost, Salts[nextID + 1])
           u == NewUser(nur, now, UUIDs[nextID + 1], hash)
       IN  IF ~hashOK
           THEN /\ Return("Create", args, Result(ErrWrapped, ZeroUser, 1))
                /\ UNCHANGED <<users, nextID>>
           ELSE /\ nextID' = nextID + 1
                /\ IF ~dbOK
                   THEN /\ Return("Create", args, Result(ErrWrapped, ZeroUser, 2))
                        /\ UNCHANGED users
                   ELSE /\ users' = InsertUser(u)
                        /\ Return("Create", args, Result(Nil, u, 2))
    /\ inflight' = inflight \ {c}
    /\ UNCHANGED started

-----------------------------------------------------------------------------
(* Update, service.go:115-147 *)

\* The fetched User with the request's fields and the new DateUpdated.
ApplyUpdate(u, uur, now) ==
    [u EXCEPT !.Name = uur.Name, !.Country = uur.Country,
              !.LastName = uur.LastName, !.Email = uur.Email,
              !.DateUpdated = UTC(now)]

\* Mutant of the UPDATE: no WHERE clause.
UpdateRowsEvery(u) ==
    { [x EXCEPT !.Name = u.Name, !.LastName = u.LastName,
                !.Email = u.Email, !.Country = u.Country,
                !.DateUpdated = u.DateUpdated] : x \in users }

\* UPDATE users SET name, last_name, email, country, date_updated WHERE user_id
UpdateRows(u) ==
    { IF x.ID = u.ID
      THEN [x EXCEPT !.Name = u.Name, !.LastName = u.LastName,
                     !.Email = u.Email, !.Country = u.Country,
                     !.DateUpdated = u.DateUpdated]
      ELSE x : x \in users }

\* First part: the target is fetched through GetByID.
Update(claims, userID, uur, now, dbOK) ==
    /\ Begin
    /\ \E row \in QueryRow(SelectByID(userID)) :
         LET r == GetByIDResult(claims, userID, dbOK, row)
             args == [claims |-> claims, userID |-> userID, uur |-> uur, now |-> now]
         IN  IF r.err # Nil
             THEN /\ Return("Update", args, Result(r.err, ZeroUser, r.dbCalls))
                  /\ UNCHANGED inflight
             ELSE /\ inflight' = inflight \cup {[pc |-> "exec", u |-> r.out, args |-> args]}
                  /\ UNCHANGED <<ret, requestCount, requestLatency>>
    /\ UNCHANGED <<users, nextID>>

\* Second part: the UPDATE statement.
UpdateExec(c, dbOK) ==
    /\ c \in inflight
    /\ c.pc = "exec"
    /\ LET args == c.args
           u == ApplyUpdate(c.u, args.uur, args.now)
       IN  IF ~dbOK
           THEN /\ Return("Update", args, Result(ErrWrapped, ZeroUser, 2))
                /\ UNCHANGED users
           ELSE /\ users' = UpdateRows(u)
                /\ Return("Update", args, Result(Nil, u, 2))
    /\ inflight' = inflight \ {c}
    /\ UNCHANGED <<nextID, started>>

-----------------------------------------------------------------------------
(* Delete, service.go:150-173 *)

DeleteResult(claims, userID, dbOK) ==
    IF ~ParseOK(userID) THEN Result(ErrInvalidID, <<>>, 0)
    ELSE IF Denied(claims, userID) THEN Result(ErrForbidden, <<>>, 0)
    ELSE IF ~dbOK THEN Result(ErrWrapped, <<>>, 1)
    ELSE Result(Nil, <<>>, 1)

\* DELETE FROM users WHERE user_id = $1
DeleteRows(userID) == users \ SelectByID(userID)

Delete(claims, userID, dbOK) ==
    /\ Begin
    /\ LET r == DeleteResult(claims, userID, dbOK) IN
         /\ Return("Delete", [claims |-> claims, userID |-> userID], r)
         /\ users' = IF r.err = Nil THEN DeleteRows(userID) ELSE users
    /\ UNCHANGED <<nextID, inflight>>

-----------------------------------------------------------------------------
(* GetAll, service.go:176-197 *)

PageNumbers == {1, 2}
RowsPerPage == {1}

IdIndex(id) == CHOOSE i \in 1..Len(UUIDs) : UUIDs[i] = id

\* ORDER BY user_id
RECURSIVE OrderByID(_)
OrderByID(rows) ==
    IF rows = {} THEN <<>>
    ELSE LET m == CHOOSE u \in rows :
                    \A v \in rows : IdIndex(u.ID) <= IdIndex(v.ID)
         IN  <<m>> \o OrderByID(rows \ {m})

Min(a, b) == IF a < b THEN a ELSE b

\* OFFSET offset ROWS FETCH NEXT limit ROWS ONLY
SelectPage(offset, limit) ==
    LET all == OrderByID(users) IN
        SubSeq(all, offset + 1, Min(offset + limit, Len(all)))

GetAllResult(pageNumber, rowsPerPage, dbOK) ==
    LET offset == (pageNumber - 1) * rowsPerPage IN
        IF ~dbOK THEN Result(ErrWrapped, <<>>, 1)
        ELSE Result(Nil, SelectPage(offset, rowsPerPage), 1)

GetAll(pageNumber, rowsPerPage, dbOK) ==
    /\ Begin
    /\ Return("GetAll", [pageNumber |-> pageNumber, rowsPerPage |-> rowsPerPage],
              GetAllResult(pageNumber, rowsPerPage, dbOK))
    /\ UNCHANGED <<users, nextID, inflight>>

-----------------------------------------------------------------------------
(* Authenticate, service.go:228-257, and getByEmail, service.go:260-275 *)

GetByEmailResult(email, dbOK, row) ==
    IF ~dbOK THEN Result(ErrWrapped, ZeroUser, 1)
    ELSE IF row = <<>> THEN Result(ErrNotFound, ZeroUser, 1)
    ELSE Result(Nil, row[1], 1)

\* The claims Authenticate builds for u.
IssueClaims(u, now) ==
    [ Issuer |-> "service template", Subject |-> u.ID, Audience |-> "clients",
      ExpiresAt |-> now.sec + Hour, IssuedAt |-> now.sec, Roles |-> u.Roles ]

\* Mutant of Authenticate: the lookup's ErrNotFound is handed on as it is.
AuthenticateNotFolded(now, email, password, dbOK, row) ==
    LET r == GetByEmailResult(email, dbOK, row) IN
        IF r.err # Nil THEN Result(r.err, ZeroClaims, 1)
        ELSE IF ~CompareHashAndPassword(r.out.PasswordHash, password)
             THEN Result(ErrAuthenticationFailure, ZeroClaims, 1)
        ELSE Result(Nil, IssueClaims(r.out, now), 1)

AuthenticateResult(now, email, password, dbOK, row) ==
    LET r == GetByEmailResult(email, dbOK, row) IN
        IF r.err = ErrNotFound THEN Result(ErrAuthenticationFailure, ZeroClaims, 1)
        ELSE IF r.err # Nil THEN Result(ErrWrapped, ZeroClaims, 1)
        ELSE IF ~CompareHashAndPassword(r.out.PasswordHash, password)
             THEN Result(ErrAuthenticationFailure, ZeroClaims, 1)
        ELSE Result(Nil, IssueClaims(r.out, now), 1)

Authenticate(now, email, password, dbOK) ==
    /\ Begin
    /\ \E row \in QueryRow(SelectByEmail(email)) :
          Return("Authenticate",
                 [now |-> now, email |-> email, password |-> password],
                 AuthenticateResult(now, email, password, dbOK, row))
    /\ UNCHANGED <<users, nextID, inflight>>

-----------------------------------------------------------------------------
(* Init *)

Init ==
    /\ users = {}
    /\ nextID = 0
    /\ inflight = {}
    /\ ret = NoCall
    /\ started = 0
    /\ requestCount = 0
    /\ requestLatency = 0

Next ==
    \/ \E nur \in NewUserRequests, ok \in BOOLEAN : Create(nur, Now, ok)
    \/ \E c \in inflight, hashOK \in BOOLEAN, ok \in BOOLEAN : CreateInsert(c, hashOK, ok)
    \/ \E c \in CallerClaims, id \in InputIDs, uur \in UpdateUserRequests, ok \in BOOLEAN :
          Update(c, id, uur, Now, ok)
    \/ \E c \in inflight, ok \in BOOLEAN : UpdateExec(c, ok)
    \/ \E c \in CallerClaims, id \in InputIDs, ok \in BOOLEAN : Delete(c, id, ok)
    \/ \E pn \in PageNumbers, rpp \in RowsPerPage, ok \in BOOLEAN : GetAll(pn, rpp, ok)
    \/ \E c \in CallerClaims, id \in InputIDs, ok \in BOOLEAN : GetByID(c, id, ok)
    \/ \E e \in Emails, pw \in Passwords, ok \in BOOLEAN : Authenticate(Now, e, pw, ok)

Spec == Init /\ [][Next]_vars

-----------------------------------------------------------------------------
(* Vocabulary of the properties *)

GuardedOps == {"GetByID", "Delete", "Update"}

IsAdmin(claims) == \E i \in 1..Len(claims.Roles) : claims.Roles[i] = "ADMIN"

WellFormed(userID) == \E i \in 1..Len(UUIDs) : UUIDs[i] = userID

\* Calls that have returned.
Completed == started - Cardinality(inflight)

\* This step is the return of a call.
Returns == Completed' # Completed

\* This step begins a call.
Begins == started' # started

OnFile(email) == \E u \in users : u.Email = email

-----------------------------------------------------------------------------
(* C1 *)

\* C1 as stated: for GetByID, Delete and Update, with any caller claims and any
\* target id, a non-admin caller whose subject differs from the target id gets
\* ErrForbidden, an admin or a caller acting on their own id does not, and a
\* denied call issues no statement.
C1_GuardAnyID ==
    ret.op \in GuardedOps =>
        LET c == ret.args.claims
            id == ret.args.userID
        IN  /\ (~IsAdmin(c) /\ c.Subject # id) => (ret.err = ErrForbidden /\ ret.dbCalls = 0)
            /\ (IsAdmin(c) \/ c.Subject = id) => ret.err # ErrForbidden

\* C1 amended: for GetByID, Delete and Update with a well-formed target id, a
\* non-admin caller whose subject differs from the target id gets ErrForbidden;
\* an admin, and a caller whose subject is the target id, is not refused and the
\* call goes on to the store; a call refused with ErrForbidden issues no
\* statement and leaves the table as it was.
C1_GuardState ==
    ret.op \in GuardedOps =>
        LET c == ret.args.claims
            id == ret.args.userID
        IN  /\ (WellFormed(id) /\ ~IsAdmin(c) /\ c.Subject # id) => ret.err = ErrForbidden
            /\ (WellFormed(id) /\ (IsAdmin(c) \/ c.Subject = id)) =>
                  (ret.err \notin {ErrForbidden, ErrInvalidID} /\ ret.dbCalls >= 1)
            /\ ret.err = ErrForbidden => ret.dbCalls = 0

C1_GuardStep ==
    (Returns /\ ret'.err = ErrForbidden) => (users' = users /\ inflight' = inflight)

C1_Guard == [](C1_GuardState) /\ [][C1_GuardStep]_vars

\* A non-admin caller was refused the deletion of another, stored user.
C1_Witness ==
    /\ ret.op = "Delete"
    /\ ret.err = ErrForbidden
    /\ \E u \in users : u.ID = ret.args.userID /\ u.ID # ret.args.claims.Subject

-----------------------------------------------------------------------------
(* C2 *)

\* C2: Authenticate with an email no row has, or with a password that verifies
\* against no row of that email, returns ErrAuthenticationFailure (a failed
\* lookup apart, which is returned wrapped), never ErrNotFound, and empty
\* Claims; Claims other than the empty ones are returned only with a nil error
\* for a row of that email whose hash verifies the password.
C2_AuthenticationFailure ==
    ret.op = "Authenticate" =>
        LET email == ret.args.email
            password == ret.args.password
            rows == {u \in users : u.Email = email}
        IN  /\ ( /\ \A u \in rows : u.PasswordHash.digest # <<u.PasswordHash.salt, u.PasswordHash.cost, password>>
                 /\ ret.err # ErrWrapped ) => ret.err = ErrAuthenticationFailure
            /\ ret.err # ErrNotFound
            /\ ret.err # Nil => ret.out = ZeroClaims
            /\ ret.out # ZeroClaims =>
                  /\ ret.err = Nil
                  /\ \E u \in rows :
                        /\ u.ID = ret.out.Subject
                        /\ u.PasswordHash.digest = <<u.PasswordHash.salt, u.PasswordHash.cost, password>>

\* Authenticate failed for an email on file, on the password alone.
C2_Witness ==
    /\ ret.op = "Authenticate"
    /\ ret.err = ErrAuthenticationFailure
    /\ OnFile(ret.args.email)

-----------------------------------------------------------------------------
(* C3 *)

\* C3: for every stored user created with (email, password) and never updated
\* since, Authenticate(email, password) whose lookup does not fail returns
\* Claims with that user's id as subject and that user's roles.
C3_AuthenticateCreated ==
    (ret.op = "Authenticate" /\ ret.err # ErrWrapped) =>
        \A u \in users :
            ( /\ u.Email = ret.args.email
              /\ u.DateUpdated = u.DateCreated
              /\ CompareHashAndPassword(u.PasswordHash, ret.args.password) ) =>
            ( /\ ret.err = Nil
              /\ ret.out.Subject = u.ID
              /\ ret.out.Roles = u.Roles )

-----------------------------------------------------------------------------
(* C4 *)

\* C4: a Create whose email is, at its count query, the email of a row of the
\* table never goes on to insert: it returns ErrDuplicatedEmail (a failed count
\* query apart, which is returned wrapped) and the table is the same after the
\* call as before it.
C4_DuplicatedEmailStep ==
    /\ \A c \in inflight' \ inflight : c.pc = "insert" => ~OnFile(c.nur.Email)
    /\ (Begins /\ Returns /\ ret'.op = "Create" /\ OnFile(ret'.args.nur.Email)) =>
          /\ ret'.err \in {ErrDuplicatedEmail, ErrWrapped}
          /\ ret'.dbCalls = 1
          /\ users' = users

C4_DuplicatedEmail == [][C4_DuplicatedEmailStep]_vars

\* Create was refused for an email on file.
C4_Witness ==
    /\ ret.op = "Create"
    /\ ret.err = ErrDuplicatedEmail
    /\ OnFile(ret.args.nur.Email)

-----------------------------------------------------------------------------
(* C5 *)

\* C5: no two distinct rows of the table have the same email.
C5_EmailUnique ==
    \A u, v \in users : u.Email = v.Email => u = v

-----------------------------------------------------------------------------
(* C6 *)

\* C6: GetByID, Delete and Update with a malformed id return ErrInvalidID,
\* whatever the caller's claims, having issued no statement; no Update with a
\* malformed id is suspended before its UPDATE, and the step that returns
\* ErrInvalidID leaves the table as it was.
C6_InvalidIDState ==
    /\ (ret.op \in GuardedOps /\ ~WellFormed(ret.args.userID)) =>
          (ret.err = ErrInvalidID /\ ret.dbCalls = 0)
    /\ ret.err = ErrInvalidID => ret.dbCalls = 0
    /\ \A c \in inflight : c.pc = "exec" => WellFormed(c.args.userID)

C6_InvalidIDStep ==
    (Returns /\ ret'.err = ErrInvalidID) => (users' = users /\ inflight' = inflight)

C6_InvalidID == [](C6_InvalidIDState) /\ [][C6_InvalidIDStep]_vars

\* An admin's Update with a malformed id was turned down.
C6_Witness ==
    /\ ret.op = "Update"
    /\ ret.err = ErrInvalidID
    /\ IsAdmin(ret.args.claims)
    /\ users # {}

-----------------------------------------------------------------------------
(* C7 *)

-----------------------------------------------------------------------------
(* C8 *)

\* C8: every row of the table has at least one role.
C8_RolesNonEmpty ==
    \A u \in users : u.Roles # <<>>

-----------------------------------------------------------------------------
(* C9 *)

\* C9: the uniqueness check of Create is made once, by the count query: a
\* Create that passed it never returns ErrDuplicatedEmail afterwards, and its
\* INSERT, when it succeeds, adds its row whatever rows the table holds by
\* then.  (Two such calls with one email therefore both insert: C9_Witness.)
C9_CheckThenActStep ==
    \A c \in inflight \ inflight' :
        c.pc = "insert" =>
            /\ ret'.op = "Create"
            /\ ret'.err \in {Nil, ErrWrapped}
            /\ ret'.err = Nil =>
                  /\ ret'.out.Email = c.nur.Email
                  /\ ret'.out \notin users
                  /\ users' = users \cup {ret'.out}

C9_CheckThenAct == [][C9_CheckThenActStep]_vars

\* Two calls were made, both Create, both returned success, and the two rows
\* they inserted have the same email.
C9_Witness ==
    /\ started = 2
    /\ inflight = {}
    /\ ret.op = "Create"
    /\ ret.err = Nil
    /\ \E u, v \in users : u # v /\ u.Email = v.Email

-----------------------------------------------------------------------------
(* C10 *)

\* C10: the UPDATE of a successful Update leaves every row with another id as
\* it was, and the row of the target with its id, password hash, roles and
\* creation date, with the request's name, last name, email and country and
\* with the instant of the call's now as update date; it adds and removes no
\* row.  An Update that returns ErrInvalidID, ErrForbidden or ErrNotFound
\* leaves the table as it was.
C10_UpdateFrameStep ==
    /\ \A c \in inflight \ inflight' :
          (c.pc = "exec" /\ ret'.err = Nil) =>
              /\ Cardinality(users') = Cardinality(users)
              /\ \A x \in users :
                    IF x.ID # c.args.userID
                    THEN x \in users'
                    ELSE \E y \in users' :
                            /\ y.ID = x.ID
                            /\ y.PasswordHash = x.PasswordHash
                            /\ y.Roles = x.Roles
                            /\ y.DateCreated = x.DateCreated
                            /\ y.Name = c.args.uur.Name
                            /\ y.LastName = c.args.uur.LastName
                            /\ y.Email = c.args.uur.Email
                            /\ y.Country = c.args.uur.Country
                            /\ y.DateUpdated.sec = c.args.now.sec
    /\ ( /\ Returns
         /\ ret'.op = "Update"
         /\ ret'.err \in {ErrInvalidID, ErrForbidden, ErrNotFound} ) => users' = users

C10_UpdateFrame == [][C10_UpdateFrameStep]_vars

\* An Update succeeded on a stored user while another user was stored.
C10_Witness ==
    /\ ret.op = "Update"
    /\ ret.err = Nil
    /\ \E x, y \in users :
          /\ x.ID = ret.args.userID
          /\ x.Name = ret.args.uur.Name
          /\ x.DateUpdated # x.DateCreated
          /\ y.ID # x.ID

====
